---- MODULE Spec2Model ----
(***************************************************************************)
(* Parallel adaptive Simpson quadrature over a shared bounded LIFO store.  *)
(* Model of the flag-based worker loop (simpson with the shared `done`     *)
(* flag), its store (enqueue / dequeue / isempty under the store's lock),  *)
(* the two named critical sections queue_access and queue_update, and the  *)
(* driver main.  The recursive integrator is the operator RecLeaves.       *)
(*                                                                         *)
(* The integrand is abstracted by the set `rough` of intervals on which    *)
(* the two Simpson estimates differ by at least the tolerance; the domain  *)
(* is measured in units such that an interval narrower than WidthFloor     *)
(* passes the absolute width test.                                         *)
(***************************************************************************)
EXTENDS Integers, Sequences, FiniteSets

\* ------------------------------------------------------------ bounds
\* Largest number of threads the OpenMP runtime may give the parallel region.
MaxThreads == 2
\* Number of bisections after which an interval is narrower than the floor.
MaxDepth == 2
\* Largest number of intervals on which the integrand fails the tolerance test.
MaxSplits == 2
\* Capacity of the store (10000 in the source, scaled so that it can fill).
MAXQUEUE == 2

\* The width below which an interval is always accepted, in model units.
WidthFloor == 2

RECURSIVE Pow2(_)
Pow2(n) == IF n = 0 THEN 1 ELSE 2 * Pow2(n - 1)

\* Width of the whole domain [whole.left, whole.right] in model units.
DomainWidth == Pow2(MaxDepth)

Threads == 1..MaxThreads

\* struct Interval, reduced to its boundaries (tol is copied unchanged and
\* the cached function values are determined by the boundaries).
Interval(l, r) == [left |-> l, right |-> r]

\* The intervals bisection can produce from the whole domain.
Nodes ==
    UNION {{Interval(k * Pow2(d), (k + 1) * Pow2(d)) :
                k \in 0..(Pow2(MaxDepth - d) - 1)} : d \in 0..MaxDepth}

\* The contents of an entry slot or of a local `interval` never written.
NoInterval == [left |-> -1, right |-> -1]

whole == Interval(0, DomainWidth)

\* i1 and i2 of a split: the halves at the midpoint c.
Mid(iv) == (iv.left + iv.right) \div 2
LeftChild(iv) == Interval(iv.left, Mid(iv))
RightChild(iv) == Interval(Mid(iv), iv.right)

Width(iv) == iv.right - iv.left

\* Intervals wide enough for the tolerance test to decide.
Splittable == {n \in Nodes : ~(Width(n) < WidthFloor)}

\* The integrands, as the sets of intervals that fail the tolerance test.
\* Only intervals whose parent also fails are ever created.
Integrands ==
    {R \in SUBSET Splittable :
        /\ Cardinality(R) <= MaxSplits
        /\ \A n \in R : n = whole \/
              \E p \in R : n \in {LeftChild(p), RightChild(p)}}

VARIABLES
    mainpc,          \* position of main
    top,             \* queue.top
    entry,           \* queue.entry[0..top]: the slots dequeue can still read
    lock,            \* queue.lock: 0 when unset, else the thread holding it
    total,           \* number of intervals ever added
    total_processed, \* number of intervals processed
    quad,            \* the terms added to quad, as interval -> count
    done,            \* simpson's shared termination flag
    result,          \* the value simpson returned to main
    aborted,         \* exit(1) was called
    nthreads,        \* size of the thread team
    rough,           \* the integrand
    pc,              \* position of each thread
    interval,        \* each thread's local `interval`
    gotWork,         \* each thread's local `gotWork`
    empty,           \* each thread's value of isempty's local `empty`
    seen,            \* each thread's first operand read of the done test
    crit_access,     \* owner of critical(queue_access), 0 when free
    crit_update,     \* owner of critical(queue_update), 0 when free
    stamp,           \* history: enqueue number of each slot of entry
    nenq,            \* history: number of completed enqueues
    npop,            \* history: interval -> number of dequeues returning it
    nsplit,          \* history: interval -> number of completed splits
    crit_unnamed,    \* the thread inside an unnamed #pragma omp critical, or 0
    converged        \* exit(0) was called

store == <<top, entry, lock, stamp, nenq>>
counters == <<total, total_processed>>
locals == <<interval, gotWork, empty, seen>>
crits == <<crit_access, crit_update>>
history == <<npop, nsplit>>
config == <<nthreads, rough>>
single == <<crit_unnamed, converged>>
vars == <<mainpc, store, counters, quad, done, result, aborted, config, pc,
          locals, crits, history, single>>

\* The acceptance test: |q2 - q1| < tol, or the interval is below the floor.
Accept(iv) == (iv \notin rough) \/ (Width(iv) < WidthFloor)

\* Threads of the team.
Team == 1..nthreads

Init ==
    /\ mainpc = "enqueue"
    /\ top = -1
    /\ entry = [i \in 0..top |-> NoInterval]
    /\ lock = 0
    /\ total = 0
    /\ total_processed = 0
    /\ quad = [n \in Nodes |-> 0]
    /\ done = FALSE
    /\ result = [n \in Nodes |-> 0]
    /\ aborted = FALSE
    /\ nthreads \in Threads
    /\ rough \in Integrands
    /\ pc = [w \in Threads |-> "idle"]
    /\ interval = [w \in Threads |-> NoInterval]
    /\ gotWork = [w \in Threads |-> FALSE]
    /\ empty = [w \in Threads |-> FALSE]
    /\ seen = [w \in Threads |-> 0]
    /\ crit_access = 0
    /\ crit_update = 0
    /\ stamp = [i \in 0..top |-> 0]
    /\ nenq = 0
    /\ npop = [n \in Nodes |-> 0]
    /\ nsplit = [n \in Nodes |-> 0]
    /\ crit_unnamed = 0
    /\ converged = FALSE

\* ------------------------------------------------------------ the store
\* A capacity test that is late by one entry.
EnqueueFullLate == top = MAXQUEUE

\* enqueue's capacity test.
EnqueueFull == top = MAXQUEUE - 1

\* enqueue past its capacity test: top++ and the entry is written.
Push(iv) ==
    /\ top' = top + 1
    /\ entry' = [i \in 0..top' |-> IF i = top' THEN iv ELSE entry[i]]
    /\ stamp' = [i \in 0..top' |-> IF i = top' THEN nenq + 1 ELSE stamp[i]]
    /\ nenq' = nenq + 1

\* dequeue's emptiness test.
DequeueEmpty == top = -1

\* A dequeue that copies the top entry out and leaves top alone.
PopKeepsTop(w) ==
    /\ interval' = [interval EXCEPT ![w] = entry[top]]
    /\ UNCHANGED <<top, entry, stamp>>
    /\ npop' = [npop EXCEPT ![entry[top]] = @ + 1]

\* A dequeue that takes the oldest entry and moves the others down.
PopOldest(w) ==
    /\ interval' = [interval EXCEPT ![w] = entry[0]]
    /\ top' = top - 1
    /\ entry' = [i \in 0..top' |-> entry[i + 1]]
    /\ stamp' = [i \in 0..top' |-> stamp[i + 1]]
    /\ npop' = [npop EXCEPT ![entry[0]] = @ + 1]

\* dequeue past its emptiness test: the top entry is copied out and top--.
Pop(w) ==
    /\ interval' = [interval EXCEPT ![w] = entry[top]]
    /\ top' = top - 1
    /\ entry' = [i \in 0..top' |-> entry[i]]
    /\ stamp' = [i \in 0..top' |-> stamp[i]]
    /\ npop' = [npop EXCEPT ![entry[top]] = @ + 1]

\* isempty's reading of top.
IsEmpty == top = -1

\* A lock that is taken without waiting for its holder.
SetLockNoWait(w) == lock' = w

\* omp_set_lock / omp_unset_lock on the store's lock.
SetLock(w) == lock = 0 /\ lock' = w
UnsetLock == lock' = 0

\* ------------------------------------------------------------ main
\* enqueue(whole, &queue), called before any other thread exists.
MainEnqueue ==
    /\ mainpc = "enqueue" /\ ~aborted
    /\ lock = 0
    /\ IF EnqueueFull
         THEN aborted' = TRUE /\ UNCHANGED <<store, mainpc>>
         ELSE Push(whole) /\ mainpc' = "total" /\ UNCHANGED <<aborted, lock>>
    /\ UNCHANGED <<counters, quad, done, result, config, single, pc, locals, crits,
                   history>>

\* total = 1
MainTotal ==
    /\ mainpc = "total" /\ ~aborted
    /\ total' = 1
    /\ mainpc' = "simpson"
    /\ UNCHANGED <<store, total_processed, quad, done, result, aborted, config, single,
                   pc, locals, crits, history>>

\* simpson up to the start of the parallel region.
SimpsonFork ==
    /\ mainpc = "simpson" /\ ~aborted
    /\ quad' = [n \in Nodes |-> 0]
    /\ done' = FALSE
    /\ pc' = [w \in Threads |-> IF w \in Team THEN "while" ELSE "idle"]
    /\ mainpc' = "parallel"
    /\ UNCHANGED <<store, counters, result, aborted, config, single, locals, crits,
                   history>>

\* The end of the parallel region (its barrier) and `return quad`.
SimpsonReturn ==
    /\ mainpc = "parallel" /\ ~aborted
    /\ \A w \in Team : pc[w] = "exited"
    /\ result' = quad
    /\ mainpc' = "returned"
    /\ UNCHANGED <<store, counters, quad, done, aborted, config, single, pc, locals,
                   crits, history>>

Main == MainEnqueue \/ MainTotal \/ SimpsonFork \/ SimpsonReturn

\* ------------------------------------------------------------ a worker
Goto(w, l) == pc' = [pc EXCEPT ![w] = l]

\* while (!done), then the declarations of interval and gotWork.
LoopTest(w) ==
    /\ pc[w] = "while" /\ ~aborted
    /\ Goto(w, IF done THEN "exited" ELSE "enter_access")
    /\ interval' = [interval EXCEPT ![w] = NoInterval]
    /\ gotWork' = [gotWork EXCEPT ![w] = FALSE]
    /\ UNCHANGED <<mainpc, store, counters, quad, done, result, aborted,
                   config, single, empty, seen, crits, history>>

\* A critical(queue_access) that does not exclude other threads.
EnterAccessNoWait(w) ==
    /\ pc[w] = "enter_access" /\ ~aborted
    /\ crit_access' = w
    /\ pc' = [pc EXCEPT ![w] = "isempty_lock"]
    /\ UNCHANGED <<mainpc, store, counters, quad, done, result, aborted,
                   config, single, locals, crit_update, history>>

\* Entry of #pragma omp critical(queue_access).
EnterAccess(w) ==
    /\ pc[w] = "enter_access" /\ ~aborted
    /\ crit_access = 0
    /\ crit_access' = w
    /\ Goto(w, "isempty_lock")
    /\ UNCHANGED <<mainpc, store, counters, quad, done, result, aborted,
                   config, single, locals, crit_update, history>>

\* isempty: omp_set_lock.
IsEmptyLock(w) ==
    /\ pc[w] = "isempty_lock" /\ ~aborted
    /\ SetLock(w)
    /\ Goto(w, "isempty")
    /\ UNCHANGED <<mainpc, top, entry, stamp, nenq, counters, quad, done,
                   result, aborted, config, single, locals, crits, history>>

\* isempty: empty = (top == -1), omp_unset_lock, and the branch on it.
IsEmptyBody(w) ==
    /\ pc[w] = "isempty" /\ ~aborted
    /\ empty' = [empty EXCEPT ![w] = IsEmpty]
    /\ UnsetLock
    /\ Goto(w, IF IsEmpty THEN "check" ELSE "dequeue_lock")
    /\ UNCHANGED <<mainpc, top, entry, stamp, nenq, counters, quad, done,
                   result, aborted, config, single, interval, gotWork, seen, crits,
                   history>>

\* dequeue: omp_set_lock.
DequeueLock(w) ==
    /\ pc[w] = "dequeue_lock" /\ ~aborted
    /\ SetLock(w)
    /\ Goto(w, "dequeue")
    /\ UNCHANGED <<mainpc, top, entry, stamp, nenq, counters, quad, done,
                   result, aborted, config, single, locals, crits, history>>

\* dequeue past omp_set_lock, and gotWork = true.
DequeueBody(w) ==
    /\ pc[w] = "dequeue" /\ ~aborted
    /\ UnsetLock
    /\ IF DequeueEmpty
         THEN /\ aborted' = TRUE
              /\ UNCHANGED <<top, entry, stamp, interval, npop, gotWork, pc>>
         ELSE /\ Pop(w)
              /\ gotWork' = [gotWork EXCEPT ![w] = TRUE]
              /\ Goto(w, "exit_access")
              /\ UNCHANGED aborted
    /\ UNCHANGED <<mainpc, nenq, counters, quad, done, result, config, single, empty,
                   seen, crits, nsplit>>

\* total_processed == total: the first operand read, in either order.
CheckFirst(w) ==
    /\ pc[w] = "check" /\ ~aborted
    /\ \E first \in {"total_processed", "total"} :
         IF first = "total_processed"
           THEN seen' = [seen EXCEPT ![w] = total_processed]
                /\ Goto(w, "check_total")
           ELSE seen' = [seen EXCEPT ![w] = total]
                /\ Goto(w, "check_processed")
    /\ UNCHANGED <<mainpc, store, counters, quad, done, result, aborted,
                   config, single, interval, gotWork, empty, crits, history>>

\* The second operand read, the comparison, and done = true.
CheckSecond(w) ==
    /\ pc[w] \in {"check_total", "check_processed"} /\ ~aborted
    /\ LET other == IF pc[w] = "check_total" THEN total ELSE total_processed
       IN  done' = IF seen[w] = other THEN TRUE ELSE done
    /\ seen' = [seen EXCEPT ![w] = 0]
    /\ Goto(w, "exit_access")
    /\ UNCHANGED <<mainpc, store, counters, quad, result, aborted, config, single,
                   interval, gotWork, empty, crits, history>>

\* A critical(queue_access) that is left without being released.
ExitAccessKeeps(w) ==
    /\ pc[w] = "exit_access" /\ ~aborted
    /\ pc' = [pc EXCEPT ![w] = "if_done"]
    /\ UNCHANGED <<mainpc, store, counters, quad, done, result, aborted,
                   config, single, locals, crits, history>>

\* Exit of critical(queue_access).
ExitAccess(w) ==
    /\ pc[w] = "exit_access" /\ ~aborted
    /\ crit_access' = 0
    /\ Goto(w, "if_done")
    /\ UNCHANGED <<mainpc, store, counters, quad, done, result, aborted,
                   config, single, locals, crit_update, history>>

\* if (done) break; if (!gotWork) continue; then the acceptance test.
IfDone(w) ==
    /\ pc[w] = "if_done" /\ ~aborted
    /\ Goto(w, IF done THEN "exited"
               ELSE IF ~gotWork[w] THEN "while"
               ELSE IF Accept(interval[w]) THEN "add_quad"
               ELSE "enter_update")
    /\ UNCHANGED <<mainpc, store, counters, quad, done, result, aborted,
                   config, single, locals, crits, history>>

\* #pragma omp atomic: quad += q2 + (q2 - q1) / 15.0
AddQuad(w) ==
    /\ pc[w] = "add_quad" /\ ~aborted
    /\ quad' = [quad EXCEPT ![interval[w]] = @ + 1]
    /\ Goto(w, "add_processed")
    /\ UNCHANGED <<mainpc, store, counters, done, result, aborted, config, single,
                   locals, crits, history>>

\* An increment of total_processed that is lost.
AddProcessedLost(w) ==
    /\ pc[w] = "add_processed" /\ ~aborted
    /\ pc' = [pc EXCEPT ![w] = "while"]
    /\ UNCHANGED <<mainpc, store, counters, quad, done, result, aborted,
                   config, single, locals, crits, history>>

\* #pragma omp atomic: total_processed++
AddProcessed(w) ==
    /\ pc[w] = "add_processed" /\ ~aborted
    /\ total_processed' = total_processed + 1
    /\ Goto(w, "while")
    /\ UNCHANGED <<mainpc, store, total, quad, done, result, aborted, config, single,
                   locals, crits, history>>

\* Entry of #pragma omp critical(queue_update).
EnterUpdate(w) ==
    /\ pc[w] = "enter_update" /\ ~aborted
    /\ crit_update = 0
    /\ crit_update' = w
    /\ Goto(w, "enqueue1_lock")
    /\ UNCHANGED <<mainpc, store, counters, quad, done, result, aborted,
                   config, single, locals, crit_access, history>>

\* enqueue(i1, queue) and enqueue(i2, queue): omp_set_lock.
EnqueueLock(w) ==
    /\ pc[w] \in {"enqueue1_lock", "enqueue2_lock"} /\ ~aborted
    /\ SetLock(w)
    /\ Goto(w, IF pc[w] = "enqueue1_lock" THEN "enqueue1" ELSE "enqueue2")
    /\ UNCHANGED <<mainpc, top, entry, stamp, nenq, counters, quad, done,
                   result, aborted, config, single, locals, crits, history>>

\* An enqueue that returns from a full store without adding the entry.
EnqueueBodyDrops(w) ==
    /\ pc[w] \in {"enqueue1", "enqueue2"} /\ ~aborted
    /\ IF top = MAXQUEUE - 1
         THEN UNCHANGED <<top, entry, stamp, nenq>>
         ELSE Push(IF pc[w] = "enqueue1" THEN LeftChild(interval[w])
                                         ELSE RightChild(interval[w]))
    /\ lock' = 0
    /\ pc' = [pc EXCEPT ![w] = IF pc[w] = "enqueue1" THEN "enqueue2_lock"
                                                    ELSE "add_total"]
    /\ UNCHANGED <<mainpc, counters, quad, done, result, aborted, config, single,
                   locals, crits, history>>

\* enqueue past omp_set_lock: exit(1) on a full store (the lock stays set),
\* else the entry is added and the lock unset.
EnqueueBody(w) ==
    /\ pc[w] \in {"enqueue1", "enqueue2"} /\ ~aborted
    /\ IF EnqueueFull
         THEN /\ aborted' = TRUE
              /\ UNCHANGED <<store, pc>>
         ELSE /\ Push(IF pc[w] = "enqueue1" THEN LeftChild(interval[w])
                                            ELSE RightChild(interval[w]))
              /\ UnsetLock
              /\ Goto(w, IF pc[w] = "enqueue1" THEN "enqueue2_lock"
                                               ELSE "add_total")
              /\ UNCHANGED aborted
    /\ UNCHANGED <<mainpc, counters, quad, done, result, config, single, locals,
                   crits, history>>

\* A split that counts one interval instead of two.
AddTotalOne(w) ==
    /\ pc[w] = "add_total" /\ ~aborted
    /\ total' = total + 1
    /\ nsplit' = [nsplit EXCEPT ![interval[w]] = @ + 1]
    /\ pc' = [pc EXCEPT ![w] = "exit_update"]
    /\ UNCHANGED <<mainpc, store, total_processed, quad, done, result,
                   aborted, config, single, locals, crits, npop>>

\* total += 2
AddTotal(w) ==
    /\ pc[w] = "add_total" /\ ~aborted
    /\ total' = total + 2
    /\ nsplit' = [nsplit EXCEPT ![interval[w]] = @ + 1]
    /\ Goto(w, "exit_update")
    /\ UNCHANGED <<mainpc, store, total_processed, quad, done, result,
                   aborted, config, single, locals, crits, npop>>

\* Exit of critical(queue_update), back to the loop test.
ExitUpdate(w) ==
    /\ pc[w] = "exit_update" /\ ~aborted
    /\ crit_update' = 0
    /\ Goto(w, "while")
    /\ UNCHANGED <<mainpc, store, counters, quad, done, result, aborted,
                   config, single, locals, crit_access, history>>

Worker(w) ==
    \/ LoopTest(w) \/ EnterAccess(w) \/ IsEmptyLock(w) \/ IsEmptyBody(w)
    \/ DequeueLock(w) \/ DequeueBody(w) \/ CheckFirst(w) \/ CheckSecond(w)
    \/ ExitAccess(w) \/ IfDone(w) \/ AddQuad(w) \/ AddProcessed(w)
    \/ EnterUpdate(w) \/ EnqueueLock(w) \/ EnqueueBody(w) \/ AddTotal(w)
    \/ ExitUpdate(w)

Next == Main \/ \E w \in Threads : Worker(w)

Spec == Init /\ [][Next]_vars

\* The runs on the integrands that fail the tolerance test on the whole
\* domain at most (the seed is accepted, or split once into accepted
\* halves), in which every thread that can take a step eventually takes one.
ShallowInit == Init /\ rough \subseteq {whole}
ShallowSpec ==
    ShallowInit /\ [][Next]_vars
        /\ WF_vars(Main) /\ \A w \in Threads : WF_vars(Worker(w))

\* All runs in which every thread that can take a step eventually takes
\* one and no thread is passed over forever at a critical section or at the
\* store's lock.
FairSpec ==
    Spec /\ WF_vars(Main) /\ \A w \in Threads : SF_vars(Worker(w))

\* The runs of FairSpec in which only the whole domain may fail the test.
ShallowFairSpec ==
    ShallowInit /\ [][Next]_vars
        /\ WF_vars(Main) /\ \A w \in Threads : SF_vars(Worker(w))

\* ------------------------------------------------------------ the
\* single-queue integrator (solver2-1Queue.c): the same store and the same
\* main, one unnamed critical section for pop, accept and split.
Running == ~aborted /\ ~converged

\* simpson up to the start of the parallel for: one iteration per thread.
QSimpsonFork ==
    /\ mainpc = "simpson" /\ Running
    /\ quad' = [n \in Nodes |-> 0]
    /\ pc' = [w \in Threads |-> IF w \in Team THEN "q_enter_pop" ELSE "idle"]
    /\ mainpc' = "parallel"
    /\ UNCHANGED <<store, counters, done, result, aborted, config, single,
                   locals, crits, history>>

\* The end of the parallel for (its barrier) and `return quad`.
QSimpsonReturn ==
    /\ mainpc = "parallel" /\ Running
    /\ \A w \in Team : pc[w] = "exited"
    /\ result' = quad
    /\ mainpc' = "returned"
    /\ UNCHANGED <<store, counters, quad, done, aborted, config, single, pc,
                   locals, crits, history>>

QMain == MainEnqueue \/ MainTotal \/ QSimpsonFork \/ QSimpsonReturn

\* Entry of one of the three unnamed #pragma omp critical sections.
QEnter(w) ==
    /\ pc[w] \in {"q_enter_pop", "q_enter_accept", "q_enter_split"}
    /\ Running
    /\ crit_unnamed = 0
    /\ crit_unnamed' = w
    /\ Goto(w, CASE pc[w] = "q_enter_pop" -> "q_isempty_lock"
                 [] pc[w] = "q_enter_accept" -> "q_add_quad"
                 [] OTHER -> "q_enqueue1_lock")
    /\ UNCHANGED <<mainpc, store, counters, quad, done, result, aborted,
                   config, converged, locals, crits, history>>

\* Exit of an unnamed critical section; after accept or split the loop body
\* ends and its interval goes out of scope.
QExit(w) ==
    /\ pc[w] \in {"q_exit_pop", "q_exit_accept", "q_exit_split"}
    /\ Running
    /\ crit_unnamed' = 0
    /\ Goto(w, IF pc[w] = "q_exit_pop" THEN "q_if_empty" ELSE "q_enter_pop")
    /\ interval' = [interval EXCEPT
                      ![w] = IF pc[w] = "q_exit_pop" THEN @ ELSE NoInterval]
    /\ UNCHANGED <<mainpc, store, counters, quad, done, result, aborted,
                   config, converged, gotWork, empty, seen, crits, history>>

\* isempty, dequeue and enqueue: omp_set_lock.
QLock(w) ==
    /\ pc[w] \in {"q_isempty_lock", "q_dequeue_lock", "q_enqueue1_lock",
                  "q_enqueue2_lock"}
    /\ Running
    /\ SetLock(w)
    /\ Goto(w, CASE pc[w] = "q_isempty_lock" -> "q_isempty"
                 [] pc[w] = "q_dequeue_lock" -> "q_dequeue"
                 [] pc[w] = "q_enqueue1_lock" -> "q_enqueue1"
                 [] OTHER -> "q_enqueue2")
    /\ UNCHANGED <<mainpc, top, entry, stamp, nenq, counters, quad, done,
                   result, aborted, config, single, locals, crits, history>>

\* An isempty that reports an empty store whatever top is.
QIsEmptyBodyBlind(w) ==
    /\ pc[w] = "q_isempty" /\ Running
    /\ empty' = [empty EXCEPT ![w] = TRUE]
    /\ lock' = 0
    /\ pc' = [pc EXCEPT ![w] = "q_exit_pop"]
    /\ UNCHANGED <<mainpc, top, entry, stamp, nenq, counters, quad, done,
                   result, aborted, config, single, interval, gotWork, seen,
                   crits, history>>

\* empty = isempty(queue), and if (!empty).
QIsEmptyBody(w) ==
    /\ pc[w] = "q_isempty" /\ Running
    /\ empty' = [empty EXCEPT ![w] = IsEmpty]
    /\ UnsetLock
    /\ Goto(w, IF IsEmpty THEN "q_exit_pop" ELSE "q_dequeue_lock")
    /\ UNCHANGED <<mainpc, top, entry, stamp, nenq, counters, quad, done,
                   result, aborted, config, single, interval, gotWork, seen,
                   crits, history>>

\* interval = dequeue(queue), past omp_set_lock.
QDequeueBody(w) ==
    /\ pc[w] = "q_dequeue" /\ Running
    /\ UnsetLock
    /\ IF DequeueEmpty
         THEN /\ aborted' = TRUE
              /\ UNCHANGED <<top, entry, stamp, interval, npop, pc>>
         ELSE /\ Pop(w)
              /\ Goto(w, "q_exit_pop")
              /\ UNCHANGED aborted
    /\ UNCHANGED <<mainpc, nenq, counters, quad, done, result, config,
                   single, gotWork, empty, seen, crits, nsplit>>

\* if (empty) break; then the acceptance test on the dequeued interval.
QIfEmpty(w) ==
    /\ pc[w] = "q_if_empty" /\ Running
    /\ Goto(w, IF empty[w] THEN "exited"
               ELSE IF Accept(interval[w]) THEN "q_enter_accept"
               ELSE "q_enter_split")
    /\ UNCHANGED <<mainpc, store, counters, quad, done, result, aborted,
                   config, single, locals, crits, history>>

\* quad += q2 + (q2 - q1) / 15.0
QAddQuad(w) ==
    /\ pc[w] = "q_add_quad" /\ Running
    /\ quad' = [quad EXCEPT ![interval[w]] = @ + 1]
    /\ Goto(w, "q_add_processed")
    /\ UNCHANGED <<mainpc, store, counters, done, result, aborted, config,
                   single, locals, crits, history>>

\* An acceptance that does not count the interval as processed.
QAddProcessedLost(w) ==
    /\ pc[w] = "q_add_processed" /\ Running
    /\ pc' = [pc EXCEPT ![w] = "q_exit_accept"]
    /\ UNCHANGED <<mainpc, store, counters, quad, done, result, aborted,
                   config, single, locals, crits, history>>

\* total_processed++; if (total_processed == total) exit(0), which stops
\* the process inside the critical section.
QAddProcessed(w) ==
    /\ pc[w] = "q_add_processed" /\ Running
    /\ total_processed' = total_processed + 1
    /\ IF total_processed' = total
         THEN converged' = TRUE /\ UNCHANGED pc
         ELSE Goto(w, "q_exit_accept") /\ UNCHANGED converged
    /\ UNCHANGED <<mainpc, store, total, quad, done, result, aborted, config,
                   crit_unnamed, locals, crits, history>>

\* enqueue(i1, queue) and enqueue(i2, queue), past omp_set_lock.
QEnqueueBody(w) ==
    /\ pc[w] \in {"q_enqueue1", "q_enqueue2"} /\ Running
    /\ IF EnqueueFull
         THEN /\ aborted' = TRUE
              /\ UNCHANGED <<store, pc>>
         ELSE /\ Push(IF pc[w] = "q_enqueue1" THEN LeftChild(interval[w])
                                              ELSE RightChild(interval[w]))
              /\ UnsetLock
              /\ Goto(w, IF pc[w] = "q_enqueue1" THEN "q_enqueue2_lock"
                                                 ELSE "q_add_total")
              /\ UNCHANGED aborted
    /\ UNCHANGED <<mainpc, counters, quad, done, result, config, single,
                   locals, crits, history>>

\* total += 2
QAddTotal(w) ==
    /\ pc[w] = "q_add_total" /\ Running
    /\ total' = total + 2
    /\ nsplit' = [nsplit EXCEPT ![interval[w]] = @ + 1]
    /\ Goto(w, "q_exit_split")
    /\ UNCHANGED <<mainpc, store, total_processed, quad, done, result,
                   aborted, config, single, locals, crits, npop>>

QWorker(w) ==
    \/ QEnter(w) \/ QLock(w) \/ QIsEmptyBody(w) \/ QDequeueBody(w)
    \/ QExit(w) \/ QIfEmpty(w) \/ QAddQuad(w) \/ QAddProcessed(w)
    \/ QEnqueueBody(w) \/ QAddTotal(w)

QNext == QMain \/ \E w \in Threads : QWorker(w)

\* The single-queue program.
QueueSpec == Init /\ [][QNext]_vars

\* ------------------------------------------------------------ the
\* recursive integrator: the intervals whose estimate it returns.
RECURSIVE RecLeaves(_)
RecLeaves(iv) ==
    IF Accept(iv) THEN {iv}
    ELSE RecLeaves(LeftChild(iv)) \cup RecLeaves(RightChild(iv))

\* ------------------------------------------------------------ vocabulary
returned == mainpc = "returned"

\* Thread w holds a dequeued interval it has neither accepted (both atomic
\* updates) nor finished splitting (both enqueues and total += 2).
InFlight(w) ==
    /\ gotWork[w]
    /\ pc[w] \in {"exit_access", "if_done", "add_quad", "add_processed",
                  "enter_update", "enqueue1_lock", "enqueue1",
                  "enqueue2_lock", "enqueue2", "add_total"}

\* The intervals whose term is in a sum.
Leaves(q) == {n \in Nodes : q[n] > 0}

RECURSIVE SumWidths(_, _)
SumWidths(q, S) ==
    IF S = {} THEN 0
    ELSE LET n == CHOOSE x \in S : TRUE
         IN  q[n] * Width(n) + SumWidths(q, S \ {n})

Min(a, b) == IF a < b THEN a ELSE b

\* Thread w has enqueued the first child of a split and not yet raised total.
MidSplit(w) == pc[w] \in {"enqueue2_lock", "enqueue2", "add_total"}

\* Thread w is at a statement of the try-pop-else-check-done block that
\* reads the store or the counters.
AtAccessRead(w) ==
    pc[w] \in {"isempty", "dequeue", "check", "check_total",
               "check_processed"}

\* Thread w is inside the locked part of isempty, dequeue or enqueue.
InStoreBody(w) ==
    pc[w] \in {"isempty", "dequeue", "enqueue1", "enqueue2",
               "q_isempty", "q_dequeue", "q_enqueue1", "q_enqueue2"}

\* Thread w waits for a critical section or for the store's lock.
Waiting(w) ==
    pc[w] \in {"enter_access", "enter_update", "isempty_lock",
               "dequeue_lock", "enqueue1_lock", "enqueue2_lock"}

\* Thread w waits for a critical section or a lock that is taken.
Blocked(w) ==
    \/ pc[w] = "enter_access" /\ crit_access # 0
    \/ pc[w] = "enter_update" /\ crit_update # 0
    \/ pc[w] \in {"isempty_lock", "dequeue_lock", "enqueue1_lock",
                  "enqueue2_lock"} /\ lock # 0

\* main has seeded the store and set total = 1.
Initialised == mainpc \in {"simpson", "parallel", "returned"}

RECURSIVE SumOver(_, _)
SumOver(f, S) ==
    IF S = {} THEN 0
    ELSE LET n == CHOOSE x \in S : TRUE
         IN  f[n] + SumOver(f, S \ {n})

\* The number of splits completed (both enqueues and total += 2).
Splits == SumOver(nsplit, Nodes)

\* The single-queue workers that hold a dequeued interval they have
\* neither accepted nor split.
Held == {w \in Team : interval[w] # NoInterval}

\* The parallel region has started.
launched == mainpc \in {"parallel", "returned"}

\* ------------------------------------------------------------ claims

\* C1: in the step in which a worker sets done, the store holds no entry
\* and no worker holds an interval in flight (not yet accepted, or with a
\* child still to enqueue or to count).
C1_SafeTermination ==
    [][(~done /\ done') =>
          (top' = -1 /\ \A w \in Team : ~InFlight(w)')]_vars

\* C2: every run that does not abort on a full store reaches the state
\* where done is set, every worker has left its loop and simpson returned.
C2_Terminates == <>(returned \/ aborted)

\* C3: when simpson has returned, every interval ever dequeued was dequeued
\* once and either accepted once or split once, the store is empty, and the
\* widths of the accepted intervals add up to the width of the domain.
C3_Conservation ==
    returned =>
        /\ top = -1
        /\ \A n \in Nodes :
              npop[n] > 0 => (npop[n] = 1 /\ result[n] + nsplit[n] = 1)
        /\ SumWidths(result, Nodes) = DomainWidth

\* C4: total_processed never exceeds total.
C4_CounterInvariant == total_processed <= total

\* C5: with one thread, every run that does not abort on a full store
\* returns, and the accepted intervals are those of the recursive integrator.
C5_SingleThread ==
    (nthreads = 1) =>
        <>(aborted \/ (returned /\ Leaves(result) = RecLeaves(whole)))

\* C6: the store never holds more than MAXQUEUE entries: top stays within
\* -1 .. MAXQUEUE - 1 and the entries are those of slots 0 .. top.
C6_Capacity ==
    /\ top \in -1..(MAXQUEUE - 1)
    /\ DOMAIN entry = 0..top
    /\ Cardinality(DOMAIN entry) <= MAXQUEUE

\* C6 witness: the first enqueue of a split has filled the store.
C6_Witness ==
    \E w \in Team : pc[w] = "enqueue2_lock" /\ top = MAXQUEUE - 1

\* C7: a thread inside enqueue on a full store never gets past it; the
\* step that aborts happens on a full store and changes neither top nor
\* the entries; once aborted, nothing changes and simpson has not returned.
C7_OverflowAborts ==
    [][/\ \A w \in Team :
            (pc[w] \in {"enqueue1", "enqueue2"} /\ top = MAXQUEUE - 1)
                => pc'[w] = pc[w]
       /\ (~aborted /\ aborted') =>
            /\ top = MAXQUEUE - 1
            /\ \E w \in Team : pc[w] \in {"enqueue1", "enqueue2"}
            /\ top' = top /\ entry' = entry
       /\ aborted => vars' = vars
       /\ aborted' => ~returned']_vars

\* C7 witness: the computation aborted on a full store.
C7_Witness == aborted /\ top = MAXQUEUE - 1 /\ ~returned

\* C8: no interval is returned by two dequeues, no two threads hold the
\* same interval, and no interval is both accepted and split.
C8_ExclusiveOwnership ==
    /\ \A n \in Nodes : npop[n] <= 1
    /\ \A n \in Nodes : quad[n] = 0 \/ nsplit[n] = 0
    /\ \A w \in Team : \A v \in Team \ {w} :
          (gotWork[w] /\ gotWork[v]) => interval[w] # interval[v]

\* C8 witness: two threads hold dequeued intervals at the same time.
C8_Witness ==
    \E w \in Team : \E v \in Team \ {w} : InFlight(w) /\ InFlight(v)

\* C9: a step that removes an entry hands the top entry, the most recently
\* enqueued one still present, to the dequeuing thread; top moves by one
\* at a time and no step changes an entry below the top.
C9_StrictLIFO ==
    [][/\ top' \in {top - 1, top, top + 1}
       /\ \A i \in 0..Min(top, top') : entry'[i] = entry[i]
       /\ top' = top - 1 =>
            /\ \E w \in Team :
                  pc[w] = "dequeue" /\ interval'[w] = entry[top]
            /\ \A i \in 0..top : stamp[i] <= stamp[top]
       /\ top' = top + 1 =>
            \A i \in 0..top : stamp'[i] < stamp'[top']]_vars

\* C9 witness: a dequeue took one entry of several.
C9_Witness ==
    /\ nthreads = 1
    /\ \E w \in Team : pc[w] = "exit_access" /\ gotWork[w] /\ top >= 0

\* C10: when the seed passes the acceptance test, the computation returns,
\* and in the final state total = 1, total_processed = 1, the store is
\* empty, the seed is the only enqueue and the only accepted interval, no
\* interval was split and every thread has left its loop.
C10_SmoothSeed ==
    (rough = {}) =>
        /\ [](returned =>
                /\ total = 1 /\ total_processed = 1
                /\ top = -1 /\ nenq = 1
                /\ result = [n \in Nodes |-> IF n = whole THEN 1 ELSE 0]
                /\ \A n \in Nodes : nsplit[n] = 0
                /\ \A w \in Team : pc[w] = "exited")
        /\ <>returned

\* C10 witness: a team of MaxThreads returned from a seed that was accepted.
C10_Witness == returned /\ rough = {} /\ nthreads = MaxThreads

\* C11: once the workers are launched total is odd; from then on total
\* changes only by +2, in the step that completes a split, and
\* total_processed only by +1, in the step that completes an acceptance.
C11_CounterSteps ==
    [][/\ launched' => total' % 2 = 1
       /\ launched =>
            /\ total' \in {total, total + 2}
            /\ total_processed' \in {total_processed, total_processed + 1}
            /\ total' # total =>
                 \E w \in Team : pc[w] = "add_total" /\ pc'[w] # pc[w]
                                 /\ nsplit'[interval[w]] = nsplit[interval[w]] + 1
            /\ total_processed' # total_processed =>
                 \E w \in Team : pc[w] = "add_processed" /\ pc'[w] # pc[w]
                                 /\ quad[interval[w]] > 0]_vars

\* C11 witness: a split and an acceptance have both been counted.
C11_Witness == launched /\ total = 3 /\ total_processed >= 1

\* C12: while a thread is between the first enqueue of a split and its
\* total += 2, no other thread executes a statement of the
\* try-pop-else-check-done block that reads the store or the counters.
C12_SplitIndivisible ==
    [][\A w \in Team : \A v \in Team \ {w} :
          (MidSplit(w) /\ AtAccessRead(v)) => pc'[v] = pc[v]]_vars

\* C15: at most one thread at a time is inside the locked part of enqueue,
\* dequeue or isempty, and it holds the store's lock.
C15_StoreMutex ==
    /\ \A w \in Team : InStoreBody(w) => lock = w
    /\ Cardinality({w \in Team : InStoreBody(w)}) <= 1

\* C15 witness: a thread is inside enqueue while another waits in isempty
\* for the lock.
C15_Witness ==
    \E w \in Team : \E v \in Team \ {w} :
        pc[w] \in {"enqueue1", "enqueue2"} /\ pc[v] = "isempty_lock"

\* C16: a thread that found the store non-empty inside queue_access still
\* finds it non-empty in dequeue, and the computation never aborts on an
\* empty store.
C16_NoEmptyDequeue ==
    /\ \A w \in Team : pc[w] \in {"dequeue_lock", "dequeue"} => top >= 0
    /\ aborted => top # -1

\* C16 witness: a thread is about to dequeue while another is inside
\* enqueue in queue_update.
C16_Witness ==
    \E w \in Team : \E v \in Team \ {w} :
        pc[w] = "dequeue_lock" /\ pc[v] \in {"enqueue1", "enqueue2"}

\* C17: while the computation runs, some thread that has not left its loop
\* is not blocked on a critical section or the lock; and a waiting thread
\* eventually stops waiting (or the computation aborts on a full store).
C17_NoDeadlock ==
    /\ []((launched /\ ~aborted /\ \E w \in Team : pc[w] # "exited") =>
            \E w \in Team : pc[w] # "exited" /\ ~Blocked(w))
    /\ \A w \in Threads : (Waiting(w) ~> (~Waiting(w) \/ aborted))

\* C17 witness: a thread inside queue_access is blocked on the store's
\* lock, which is held by a thread inside queue_update.
C17_Witness ==
    \E w \in Team : \E v \in Team \ {w} :
        /\ crit_access = w /\ Blocked(w)
        /\ crit_update = v /\ lock = v

\* C13: a single-queue worker that found the store empty while
\* total_processed != total does not leave its loop.
C13_EmptyRetries ==
    [][\A w \in Team :
         (pc[w] = "q_if_empty" /\ empty[w] /\ total_processed # total)
             => pc'[w] # "exited"]_vars

\* C14: the single-queue program is never terminated by exit(0) from
\* inside a worker.
C14_NoWorkerExit == converged = FALSE

\* C18: in the single-queue program, once main has set total = 1, in every
\* state outside the unnamed critical section total - total_processed is
\* the number of completed splits plus the store's entries plus the
\* intervals in flight, and total = 1 + 2 * (completed splits).
C18_Accounting ==
    (Initialised /\ crit_unnamed = 0) =>
        /\ total - total_processed = Splits + (top + 1) + Cardinality(Held)
        /\ total = 1 + 2 * Splits

\* C18 witness: outside the critical section after a split and an
\* acceptance, with an entry in the store and an interval in flight.
C18_Witness ==
    /\ Initialised /\ crit_unnamed = 0
    /\ Splits >= 1 /\ total_processed >= 1 /\ top >= 0 /\ Held # {}

\* C19: when the single-queue simpson returns, the store is empty, no
\* interval is in flight, and every interval enqueued was dequeued and
\* either accepted or split.
C19_DrainedAtReturn ==
    returned =>
        /\ top = -1
        /\ Held = {}
        /\ nenq = SumOver(npop, Nodes)
        /\ \A n \in Nodes : npop[n] = quad[n] + nsplit[n]
        /\ result = quad

\* C19 witness: simpson returned to main after a split, with a team of
\* more than one thread.
C19_Witness == returned /\ nsplit[whole] = 1 /\ nthreads > 1

====
